---- MODULE Spec2Model ----
\* A model of the RV32I hart of rsenna/mvm: bit layouts (core/src/bitfield.rs),
\* decoder (core/src/isa_module.rs, core/src/architecture.rs), descriptor
\* matching (core/src/instruction.rs, core/src/architecture.rs), register file
\* (core/src/register.rs), memory (core/src/memory.rs) and the hart's
\* fetch / execute (core/src/hart.rs); and of the enum-alias macro
\* (pmacro/src/enum_aliases.rs, pmacro/src/enum_alias.rs).
\*
\* Specifications: Spec (the hart), SpecDecode (decoder and descriptor
\* matching on one word), SpecMemory (the Memory trait on one VecMemory),
\* SpecBitfield (an R-type word built and read back) and SpecAlias (the
\* macro implementations on one input).
\*
\* Number representation.  TLC integers stop at 2^31-1, so
\*   - a Word (u32) is a pair <<lo, hi>> of 16-bit half words, the way
\*     read_word composes it from two read_half_word calls;
\*   - a RegisterValue64 (u64) is a tuple of four 16-bit limbs, least
\*     significant first, added with carry and wrapped at 2^64.
EXTENDS Integers, Sequences, FiniteSets, TLC

VARIABLES
    rOpcodeBits,  \* width read by RType32Bitfield::opcode (fixed per build)
    pc,           \* Registers64.pc
    array,        \* Registers64.array
    ram,          \* VecMemory.ram
    status,       \* "running", or "panicked" after a Rust panic
    fetched,      \* the Option<InstructionFormat32> returned by the last fetch
    cycle,        \* history: progress of the first fetch/execute cycle
    last,         \* history: the last operation and its arguments
    probe,        \* history: the last direct call of RV32I::decode
    dword,        \* decoder bench: the word under test
    dres,         \* decoder bench: results computed for dword
    overflowChecks, \* the build panics on arithmetic overflow (fixed per build)
    mlast,        \* memory bench: the last call on the VecMemory and its outcome
    mwrites,      \* memory bench: the number of write calls made
    bf,           \* bitfield bench: field values, the word built, the fields read
    al            \* enum-alias bench: the macro input and what the macro returned

vars == <<rOpcodeBits, pc, array, ram, status, fetched, cycle, last, probe, dword, dres,
          overflowChecks, mlast, mwrites, bf, al>>

hartVars == <<pc, array, ram, status, fetched, cycle, last, probe>>
benchVars == <<dword, dres>>
unitVars == <<overflowChecks, mlast, mwrites, bf, al>>

-----------------------------------------------------------------------------
\* Bounds of the model

\* memory_size passed to SimpleRV32IHart::new
MemSize == 40

\* write calls made on the memory bench
MaxWrites == 2

\* entries of an alias list handed to the enum-alias macro
MaxAliases == 3

-----------------------------------------------------------------------------
\* Options: None is <<>>, Some(x) is <<x>>

None == <<>>

Some(x) == <<x>>

-----------------------------------------------------------------------------
\* Words and bit ranges

HalfWordRadix == 65536

\* bit i (0..31) of the word w
Bit(w, i) == IF i < 16 THEN (w[1] \div (2 ^ i)) % 2 ELSE (w[2] \div (2 ^ (i - 16))) % 2

RECURSIVE BitsFrom(_, _, _, _)
BitsFrom(w, a, b, i) == IF i > b THEN 0 ELSE Bit(w, i) * (2 ^ (i - a)) + BitsFrom(w, a, b, i + 1)

\* the field declared #[bits(a..=b)] of the word w
Bits(w, a, b) == BitsFrom(w, a, b, a)

\* RType32Bitfield::opcode is declared over bits 0..=7 with the 7-bit type
\* Opcode7.  The two are inconsistent: the getter either masks to the width
\* of the type (7) or reads the declared range (8); rOpcodeBits is the one
\* the build settled on.
RTypeOpcode(w) == Bits(w, 0, rOpcodeBits - 1)

RTypeRd(w) == Bits(w, 7, 11)

RTypeFunct3(w) == Bits(w, 12, 14)

RTypeRs1(w) == Bits(w, 15, 19)

RTypeRs2(w) == Bits(w, 20, 24)

RTypeFunct7(w) == Bits(w, 25, 31)

ITypeOpcode(w) == Bits(w, 0, 6)

ITypeRd(w) == Bits(w, 7, 11)

ITypeFunct3(w) == Bits(w, 12, 14)

ITypeRs1(w) == Bits(w, 15, 19)

ITypeImm(w) == Bits(w, 20, 31)

\* The I, S and Fence layouts declare no funct7; `is` calls funct7() on them
\* all the same.  Read as the bits the R layout gives that name.
ITypeFunct7(w) == Bits(w, 25, 31)

STypeOpcode(w) == Bits(w, 0, 6)

STypeFunct3(w) == Bits(w, 12, 14)

BTypeOpcode(w) == Bits(w, 0, 6)

BTypeFunct3(w) == Bits(w, 12, 14)

JTypeOpcode(w) == Bits(w, 0, 6)

UTypeOpcode(w) == Bits(w, 0, 6)

\* the field declared #[bits([r1, r2, ..])] of the word w: the ranges
\* <<a, b>> of the list put together, the first one least significant
RECURSIVE MultiBits(_, _)
MultiBits(w, ranges) ==
    IF ranges = <<>> THEN 0
    ELSE Bits(w, Head(ranges)[1], Head(ranges)[2])
         + (2 ^ (Head(ranges)[2] - Head(ranges)[1] + 1)) * MultiBits(w, Tail(ranges))

\* BType32Bitfield::imm_raw, bits [8..=11, 25..=30, 7, 31]: 12 bits, held as
\* they are (the shift is a TODO in the source)
BTypeImmRaw(w) == MultiBits(w, << <<8, 11>>, <<25, 30>>, <<7, 7>>, <<31, 31>> >>)

\* JType32Bitfield::imm_raw, bits [21..=30, 20, 12..=19, 31]: 20 bits
\* declared with the 12-bit type Immediate12.  The two are inconsistent: the
\* getter yields `width` bits, 20 (the declared ranges) or 12 (the type).
JTypeImmRaw(w, width) ==
    MultiBits(w, << <<21, 30>>, <<20, 20>>, <<12, 19>>, <<31, 31>> >>) % (2 ^ width)

IFenceTypeOpcode(w) == Bits(w, 0, 6)

IFenceTypeFunct3(w) == Bits(w, 12, 14)

RECURSIVE HalfFrom(_, _, _)
HalfFrom(bits, base, i) ==
    IF i = 16 THEN 0 ELSE bits[base + i] * (2 ^ i) + HalfFrom(bits, base, i + 1)

\* the setter of the field declared #[bits(a..=b, rw)]: the word w with bits
\* a..b replaced by the value v
WithBits(w, a, b, v) ==
    LET bits == [i \in 0..31 |-> IF i >= a /\ i <= b THEN (v \div (2 ^ (i - a))) % 2 ELSE Bit(w, i)]
    IN  <<HalfFrom(bits, 0, 0), HalfFrom(bits, 16, 0)>>

\* RType32Bitfield::with_opcode writes the range RType32Bitfield::opcode reads
RTypeWithOpcode(w, v) == WithBits(w, 0, rOpcodeBits - 1, v)

RTypeWithRd(w, v) == WithBits(w, 7, 11, v)

RTypeWithFunct3(w, v) == WithBits(w, 12, 14, v)

RTypeWithRs1(w, v) == WithBits(w, 15, 19, v)

RTypeWithRs2(w, v) == WithBits(w, 20, 24, v)

RTypeWithFunct7(w, v) == WithBits(w, 25, 31, v)

\* an R-type word built from the default (0) with the setters, in the order
\* the fields are declared
RTypeBuild(f) ==
    RTypeWithFunct7(RTypeWithRs2(RTypeWithRs1(RTypeWithFunct3(RTypeWithRd(
        RTypeWithOpcode(<<0, 0>>, f.opcode), f.rd), f.funct3), f.rs1), f.rs2), f.funct7)

\* every field of an R-type word read through its getter
RTypeRead(w) ==
    [opcode |-> RTypeOpcode(w), rd |-> RTypeRd(w), funct3 |-> RTypeFunct3(w),
     rs1 |-> RTypeRs1(w), rs2 |-> RTypeRs2(w), funct7 |-> RTypeFunct7(w)]

\* every field of a word read through the getters of IType32Bitfield
ITypeRead(w) ==
    [opcode |-> ITypeOpcode(w), rd |-> ITypeRd(w), funct3 |-> ITypeFunct3(w),
     rs1 |-> ITypeRs1(w), imm |-> ITypeImm(w)]

-----------------------------------------------------------------------------
\* Opcode table (bitfield.rs, enum Opcode7Table)

OpcodeZero == 0
OpcodeLoad == 3
OpcodeLoadFloatingPoint == 7
OpcodeCustom0 == 11
OpcodeMiscMemory == 15
OpImmediate == 19
AddUpperImmediateToPC == 23
OpImmediate32 == 27
OpcodeStore == 35
OpcodeStoreFloatingPoint == 39
OpcodeCustom1 == 43
AtomicMemoryOperation == 47
OpcodeRegister == 51
LoadUpperImmediate == 55
OpRegister32 == 59
MultiplyAndAdd == 67
MultiplyAndSubtract == 71
NegMultiplyAndSubtract == 75
NegMultiplyAndAdd == 79
OpFloatingPoint == 83
OpVector == 87
Custom2Rv128 == 91
OpcodeBranch == 99
JumpAndLinkRegister == 103
OpcodeReserved == 107
JumpAndLink == 111
OpcodeSystem == 115
OpVectorElement == 119
Custom3Rv128 == 123

Opcode7Table ==
    { OpcodeZero, OpcodeLoad, OpcodeLoadFloatingPoint, OpcodeCustom0, OpcodeMiscMemory,
      OpImmediate, AddUpperImmediateToPC, OpImmediate32, OpcodeStore,
      OpcodeStoreFloatingPoint, OpcodeCustom1, AtomicMemoryOperation, OpcodeRegister,
      LoadUpperImmediate, OpRegister32, MultiplyAndAdd, MultiplyAndSubtract,
      NegMultiplyAndSubtract, NegMultiplyAndAdd, OpFloatingPoint, OpVector,
      Custom2Rv128, OpcodeBranch, JumpAndLinkRegister, OpcodeReserved, JumpAndLink,
      OpcodeSystem, OpVectorElement, Custom3Rv128 }

\* opcode.value().try_into().ok(): the table entry, or None outside the table
Opcode7TryInto(v) == IF v \in Opcode7Table THEN Some(v) ELSE None

\* Funct3OpcodeTable
Funct3ADD == 0
Funct3SLT == 2
Funct3SLTU == 3
Funct3AND == 7

-----------------------------------------------------------------------------
\* Decoder

Instr(format, w) == [format |-> format, word |-> w]

\* a decoder that falls back to a default variant instead of None
DecodeVariantBroken(opcode, w) ==
    IF opcode = Some(OpImmediate) THEN Some(Instr("IntegerRegisterImmediate", w))
    ELSE IF opcode = Some(OpcodeRegister) THEN Some(Instr("IntegerRegisterRegister", w))
    ELSE IF opcode = Some(JumpAndLink) THEN Some(Instr("UnconditionalJump", w))
    ELSE IF opcode = Some(OpcodeBranch) THEN Some(Instr("ConditionBranch", w))
    ELSE IF opcode \in {Some(LoadUpperImmediate), Some(AddUpperImmediateToPC)}
         THEN Some(Instr("Load", w))
    ELSE IF opcode = Some(OpcodeStore) THEN Some(Instr("Store", w))
    ELSE Some(Instr("IntegerRegisterImmediate", w))

\* a decoder with arms for the Load and System opcodes as well
DecodeVariantComplete(opcode, w) ==
    IF opcode = Some(OpImmediate) THEN Some(Instr("IntegerRegisterImmediate", w))
    ELSE IF opcode = Some(OpcodeRegister) THEN Some(Instr("IntegerRegisterRegister", w))
    ELSE IF opcode = Some(JumpAndLink) THEN Some(Instr("UnconditionalJump", w))
    ELSE IF opcode = Some(OpcodeBranch) THEN Some(Instr("ConditionBranch", w))
    ELSE IF opcode \in {Some(LoadUpperImmediate), Some(AddUpperImmediateToPC), Some(OpcodeLoad)}
         THEN Some(Instr("Load", w))
    ELSE IF opcode = Some(OpcodeStore) THEN Some(Instr("Store", w))
    ELSE IF opcode = Some(OpcodeSystem) THEN Some(Instr("EnvironmentCallAndBreakpoint", w))
    ELSE None

\* the match of decode: the variant chosen for a table entry, None for every
\* other entry and for a value outside the table (`_ => None`)
DecodeVariant(opcode, w) ==
    IF opcode = Some(OpImmediate) THEN Some(Instr("IntegerRegisterImmediate", w))
    ELSE IF opcode = Some(OpcodeRegister) THEN Some(Instr("IntegerRegisterRegister", w))
    ELSE IF opcode = Some(JumpAndLink) THEN Some(Instr("UnconditionalJump", w))
    ELSE IF opcode = Some(OpcodeBranch) THEN Some(Instr("ConditionBranch", w))
    ELSE IF opcode \in {Some(LoadUpperImmediate), Some(AddUpperImmediateToPC)}
         THEN Some(Instr("Load", w))
    ELSE IF opcode = Some(OpcodeStore) THEN Some(Instr("Store", w))
    ELSE None

\* a decoder whose result depends on the hart's PC
DecodeImpure(chomp) ==
    IF pc = 0 THEN DecodeVariant(Opcode7TryInto(RTypeOpcode(chomp)), chomp) ELSE None

\* isa_module.rs, <RV32I as IsaModule>::decode
Decode(chomp) == DecodeVariant(Opcode7TryInto(RTypeOpcode(chomp)), chomp)

\* architecture.rs, <RV32I as Architecture>::decode: the same table
ArchDecode(chomp) == DecodeVariant(Opcode7TryInto(RTypeOpcode(chomp)), chomp)

-----------------------------------------------------------------------------
\* Descriptors (instruction.rs)

Descriptor(id, format, opcode, funct3, funct7) ==
    [id |-> id, format |-> format, opcode |-> opcode, funct3 |-> funct3, funct7 |-> funct7]

ADDI == Descriptor("ADDI", "IntegerRegisterImmediate", Some(OpImmediate), Some(Funct3ADD), None)

SLTI == Descriptor("SLTI", "IntegerRegisterImmediate", Some(OpImmediate), Some(Funct3SLT), None)

SLTIU == Descriptor("SLTIU", "IntegerRegisterImmediate", Some(OpImmediate), Some(Funct3SLTU), None)

ANDI == Descriptor("ANDI", "IntegerRegisterImmediate", Some(OpImmediate), Some(Funct3SLTU), None)

Descriptors == {ADDI, SLTI, SLTIU, ANDI}

\* instruction.rs, <InstructionFormat32 as GenericInstructionFormat>::get_opcode:
\* the opcode getter of the layout the variant wraps
GetOpcode(inst) ==
    IF inst.format \in {"IntegerRegisterRegister", "EnvironmentCallAndBreakpoint"}
    THEN RTypeOpcode(inst.word)
    ELSE IF inst.format = "UnconditionalJump" THEN JTypeOpcode(inst.word)
    ELSE IF inst.format = "ConditionBranch" THEN BTypeOpcode(inst.word)
    ELSE IF inst.format = "Store" THEN STypeOpcode(inst.word)
    ELSE IF inst.format = "Fence" THEN IFenceTypeOpcode(inst.word)
    ELSE ITypeOpcode(inst.word)

\* the closure check_o7f3f7 of `is` and of match_instruction
CheckO7F3F7(descr, opcode, funct3, funct7) ==
    /\ descr.opcode = Some(opcode)
    /\ descr.funct3 = Some(funct3)
    /\ descr.funct7 = Some(funct7)

\* the closure check_o7f3 of `is` and of match_instruction.  The descriptor's
\* opcode and funct3 are compared by their enum values.
CheckO7F3(descr, opcode, funct3) ==
    /\ descr.opcode = Some(opcode)
    /\ descr.funct3 = Some(funct3)
    /\ descr.funct7 = None

ITypeFormats == {"IntegerRegisterImmediate", "UnconditionalJump", "ControlAndStatusRegister",
                 "TimeAndCounter", "Load"}

RTypeFormats == {"IntegerRegisterRegister", "EnvironmentCallAndBreakpoint"}

\* instruction.rs, <InstructionFormat32 as GenericInstructionFormat>::is
Is(inst, descr) ==
    LET w == inst.word IN
    IF inst.format \in ITypeFormats
    THEN CheckO7F3F7(descr, ITypeOpcode(w), ITypeFunct3(w), ITypeFunct7(w))
    ELSE IF inst.format \in RTypeFormats
    THEN CheckO7F3F7(descr, RTypeOpcode(w), RTypeFunct3(w), RTypeFunct7(w))
    ELSE IF inst.format = "ConditionBranch"
    THEN CheckO7F3(descr, BTypeOpcode(w), BTypeFunct3(w))
    ELSE IF inst.format = "Store"
    THEN CheckO7F3F7(descr, STypeOpcode(w), STypeFunct3(w), ITypeFunct7(w))
    ELSE CheckO7F3F7(descr, IFenceTypeOpcode(w), IFenceTypeFunct3(w), ITypeFunct7(w))

\* architecture.rs, <RV32I as Architecture>::match_instruction
MatchInstruction(inst, descr) ==
    LET w == inst.word IN
    IF inst.format \in {"Load", "ControlAndStatusRegister", "TimeAndCounter",
                        "IntegerRegisterImmediate"}
    THEN CheckO7F3(descr, ITypeOpcode(w), ITypeFunct3(w))
    ELSE IF inst.format = "UnconditionalJump"
    THEN Opcode7TryInto(JTypeOpcode(w)) = descr.opcode
    ELSE IF inst.format \in RTypeFormats
    THEN CheckO7F3F7(descr, RTypeOpcode(w), RTypeFunct3(w), RTypeFunct7(w))
    ELSE IF inst.format = "ConditionBranch"
    THEN CheckO7F3(descr, BTypeOpcode(w), BTypeFunct3(w))
    ELSE IF inst.format = "Store"
    THEN CheckO7F3(descr, STypeOpcode(w), STypeFunct3(w))
    ELSE CheckO7F3(descr, IFenceTypeOpcode(w), IFenceTypeFunct3(w))

\* a match_instr that takes an absent descriptor field as "no match"
MatchInstrStrict(w, descr) ==
    IF CheckO7F3F7(descr, RTypeOpcode(w), RTypeFunct3(w), RTypeFunct7(w))
    THEN Some(Instr(descr.format, w))
    ELSE None

\* instruction.rs, InstructionFormat32Union::match_instr: an absent opcode,
\* funct3 or funct7 of the descriptor counts as Opcode7Table::Zero,
\* Funct3Uop::Zero or Funct7Uop::Logical, all of value 0; the word is read
\* under the R layout
MatchInstr(w, descr) ==
    LET descr_opcode == IF descr.opcode = None THEN OpcodeZero ELSE descr.opcode[1]
        descr_funct3 == IF descr.funct3 = None THEN 0 ELSE descr.funct3[1]
        descr_funct7 == IF descr.funct7 = None THEN 0 ELSE descr.funct7[1]
        found == /\ descr_opcode = RTypeOpcode(w)
                 /\ descr_funct3 = RTypeFunct3(w)
                 /\ descr_funct7 = RTypeFunct7(w)
    IN  IF ~found THEN None ELSE Some(Instr(descr.format, w))

-----------------------------------------------------------------------------
\* Register values (RegisterValue64 = u64) as four 16-bit limbs

\* the u64 of a number below 2^31
U64(n) == <<n % HalfWordRadix, n \div HalfWordRadix, 0, 0>>

Zero64 == U64(0)

\* 2^32 - 1 and 2^32
Max32 == <<65535, 65535, 0, 0>>

Two32 == <<0, 0, 1, 0>>

\* u64::wrapping_add
WrappingAdd(a, b) ==
    LET s1 == a[1] + b[1]
        s2 == a[2] + b[2] + (s1 \div HalfWordRadix)
        s3 == a[3] + b[3] + (s2 \div HalfWordRadix)
        s4 == a[4] + b[4] + (s3 \div HalfWordRadix)
    IN  <<s1 % HalfWordRadix, s2 % HalfWordRadix, s3 % HalfWordRadix, s4 % HalfWordRadix>>

\* the operand of wrapping_add in execute: the u12 immediate widened to u64
\* with its value unchanged (no sign extension is applied anywhere)
ImmToU64(imm) == U64(imm)

-----------------------------------------------------------------------------
\* Register file (register.rs)

REGISTERS_COUNT == 30

RT(pos, abi) == [pos |-> pos, abi |-> abi]

PC == RT(-2, "pc")
ZERO == RT(-1, "zero")
RA == RT(0, "ra")
SP == RT(1, "sp")
GP == RT(2, "gp")
TP == RT(3, "tp")
T0 == RT(4, "t0")
T6 == RT(30, "t6")

AbiNames ==
    << "zero", "ra", "sp", "gp", "tp", "t0", "t1", "t2", "s0 / fp", "s1",
       "a0", "a1", "a2", "a3", "a4", "a5", "a6", "a7",
       "s2", "s3", "s4", "s5", "s6", "s7", "s8", "s9", "s10", "s11",
       "t3", "t4", "t5", "t6" >>

\* the register constant of architectural register x<i>: the constants are
\* declared in the order x0..x31 with pos = -1..30
XReg(i) == RT(i - 1, AbiNames[i + 1])

\* `pos as usize` indexes the array: in range only for 0..REGISTERS_COUNT-1
\* (a negative pos becomes a huge usize)
PosInRange(reg) == reg.pos >= 0 /\ reg.pos < REGISTERS_COUNT

\* Registers64::new
NewRegistersArray(ram_size) == [i \in 0..(REGISTERS_COUNT - 1) |-> IF i = 2 THEN U64(ram_size - 1) ELSE Zero64]

\* Registers64::get panics (index out of bounds)
GetPanics(reg) == reg # PC /\ reg # ZERO /\ ~PosInRange(reg)

\* Registers64::get, on the register file <<p, arr>>
GetOf(p, arr, reg) ==
    IF reg = PC THEN U64(p)
    ELSE IF reg = ZERO THEN Zero64
    ELSE arr[reg.pos]

Get(reg) == GetOf(pc, array, reg)

\* Registers64::set panics (index out of bounds)
SetPanics(rt) == ~PosInRange(rt)

\* Registers64::set
SetOf(arr, rt, v) == [arr EXCEPT ![rt.pos] = v]

-----------------------------------------------------------------------------
\* Memory (memory.rs)

\* InstructionLength::Word
InstructionLengthWord == 32

\* self.ram[address as usize] is in bounds
InBounds(address) == address >= 0 /\ address < MemSize

\* VecMemory::read_byte
ReadByte(address) == ram[address]

\* a read_half_word that takes the lowest-address byte as the most significant
ReadHalfWordBigEndian(address) == ReadByte(address) * 256 + ReadByte(address + 1)

\* VecMemory::read_half_word
ReadHalfWord(address) == ReadByte(address) + ReadByte(address + 1) * 256

\* VecMemory::read_word
ReadWord(address) == <<ReadHalfWord(address), ReadHalfWord(address + 2)>>

\* read_word reaches a byte outside the vector and panics
ReadWordPanics(address) == \E i \in 0..3 : ~InBounds(address + i)

\* byte k (0..3) of a word
ByteOf(w, k) ==
    IF k = 0 THEN w[1] % 256
    ELSE IF k = 1 THEN w[1] \div 256
    ELSE IF k = 2 THEN w[2] % 256
    ELSE w[2] \div 256

\* byte k (0..7) of a value held as four 16-bit limbs
ByteOfValue(v, k) ==
    IF k % 2 = 0 THEN v[(k \div 2) + 1] % 256 ELSE v[(k \div 2) + 1] \div 256

\* the operand types Byte, HalfWord, Word, DoubleWord hold 1, 2, 4, 8 bytes:
\* the value v cut to the type of `width` bytes
ValueOfWidth(v, width) ==
    [k \in 1..4 |->
        IF 2 * k <= width THEN v[k]
        ELSE IF 2 * k - 1 <= width THEN v[k] % 256
        ELSE 0]

\* VecMemory::new
NewRam == [a \in 0..(MemSize - 1) |-> 0]

\* VecMemory::read_double_word
ReadDoubleWord(address) ==
    <<ReadWord(address)[1], ReadWord(address)[2], ReadWord(address + 4)[1], ReadWord(address + 4)[2]>>

\* the read of `width` bytes, its result widened to four limbs
ReadOfWidth(width, address) ==
    IF width = 1 THEN <<ReadByte(address), 0, 0, 0>>
    ELSE IF width = 2 THEN <<ReadHalfWord(address), 0, 0, 0>>
    ELSE IF width = 4 THEN <<ReadWord(address)[1], ReadWord(address)[2], 0, 0>>
    ELSE ReadDoubleWord(address)

\* a read of `width` bytes reaches a byte outside the vector and panics
ReadPanics(width, address) == \E i \in 0..(width - 1) : ~InBounds(address + i)

\* the body of `for i in 0..T::BITS` in write_half_word / write_word /
\* write_double_word, from iteration i on, on the memory r.  The shift
\* value >> (i * Byte::BITS) reaches the width of T at i = bits / 8: with
\* overflow checks that is a panic, without them the shift amount is taken
\* modulo the width.  Then write_byte(address + i) indexes the vector.
RECURSIVE WriteLoop(_, _, _, _, _)
WriteLoop(r, bits, address, value, i) ==
    IF i = bits THEN [ram |-> r, ok |-> TRUE]
    ELSE IF i * 8 >= bits /\ overflowChecks THEN [ram |-> r, ok |-> FALSE]
    ELSE IF ~InBounds(address + i) THEN [ram |-> r, ok |-> FALSE]
    ELSE WriteLoop([r EXCEPT ![address + i] = ByteOfValue(value, ((i * 8) % bits) \div 8)],
                   bits, address, value, i + 1)

\* VecMemory::write_byte
WriteByte(r, address, value) ==
    IF InBounds(address)
    THEN [ram |-> [r EXCEPT ![address] = ByteOfValue(value, 0)], ok |-> TRUE]
    ELSE [ram |-> r, ok |-> FALSE]

\* VecMemory::write_half_word (HalfWord::BITS = 16)
WriteHalfWord(r, address, value) == WriteLoop(r, 16, address, value, 0)

\* VecMemory::write_word (Word::BITS = 32)
WriteWord(r, address, value) == WriteLoop(r, 32, address, value, 0)

\* VecMemory::write_double_word (DoubleWord::BITS = 64)
WriteDoubleWord(r, address, value) == WriteLoop(r, 64, address, value, 0)

\* the write of `width` bytes
WriteOfWidth(r, width, address, value) ==
    IF width = 1 THEN WriteByte(r, address, value)
    ELSE IF width = 2 THEN WriteHalfWord(r, address, value)
    ELSE IF width = 4 THEN WriteWord(r, address, value)
    ELSE WriteDoubleWord(r, address, value)

-----------------------------------------------------------------------------
\* Enum-alias macro (pmacro/src/enum_aliases.rs, pmacro/src/enum_alias.rs)

\* an entry of the alias list, as written between the commas: "Alias = Variant"
\* (kind "pair"), a bare "Alias" (kind "bare"), or "m::Alias = Variant" with a
\* path of two segments on the left (kind "qualified")
AliasEntry(kind, alias, variant) == [kind |-> kind, alias |-> alias, variant |-> variant]

Ok(v) == [ok |-> TRUE, value |-> v, error |-> ""]

Err(msg) == [ok |-> FALSE, value |-> <<>>, error |-> msg]

CONTEXT_DERIVE_NOT_FOUND == "Derive not found."

CONTEXT_INVALID_ALIAS_LIST == "Expected a valid list of aliases for existing enum items."

\* a token the impl block is named by: an identifier or a string literal
IdentToken(text) == [token |-> "ident", text |-> text]

LiteralToken(text) == [token |-> "literal", text |-> text]

\* TokenPair::parse_terminated.parse_str(..).ok(): the entries as
\* MetaNameValues, or None when one entry is no `path = value`
ParseTerminated(list) ==
    IF \E i \in 1..Len(list) : list[i].kind = "bare" THEN None ELSE Some(list)

\* parse_meta_name_value: path.get_ident()? gives up on a path of more than
\* one segment
ParseMetaNameValue(entry) ==
    IF entry.kind = "pair" THEN Some(<<entry.alias, entry.variant>>) ELSE None

\* .flat_map(parse_meta_name_value).map(quote!{ pub const #alias: Self = Self::#variant; })
RECURSIVE QuoteConsts(_)
QuoteConsts(list) ==
    IF list = <<>> THEN <<>>
    ELSE (IF ParseMetaNameValue(Head(list)) = None THEN <<>> ELSE ParseMetaNameValue(Head(list)))
         \o QuoteConsts(Tail(list))

\* the constants generated for the alias list: none when it does not parse
ConstsOf(list) ==
    IF ParseTerminated(list) = None THEN <<>> ELSE QuoteConsts(ParseTerminated(list)[1])

\* quote!{ impl #name { #(#consts)* } }
Expanded(name, consts) == [name |-> name, consts |-> consts]

\* enum_aliases.rs, derive_enum_alias_impl on
\* #[derive(<attr>("<list>"))] enum <enum> { .. }
DeriveEnumAliasImpl(attr, enum, list) ==
    IF attr # "EnumAlias" THEN Err(CONTEXT_DERIVE_NOT_FOUND)
    ELSE IF ConstsOf(list) = <<>> THEN Err(CONTEXT_INVALID_ALIAS_LIST)
    ELSE Ok(Expanded(LiteralToken("Test"), ConstsOf(list)))

\* enum_alias.rs, enum_alias_impl on the metadata #[<attr>("<list>")] and
\* the input enum <enum> { .. }
EnumAliasImpl(attr, enum, list) ==
    IF attr # "enum_alias" THEN Err(CONTEXT_INVALID_ALIAS_LIST)
    ELSE IF ConstsOf(list) = <<>> THEN Err(CONTEXT_INVALID_ALIAS_LIST)
    ELSE Ok(Expanded(IdentToken(enum.name), ConstsOf(list)))

-----------------------------------------------------------------------------
\* Inputs

\* 0x00500293, ADDI x5, x0, 5
WordAddiX5 == <<659, 80>>

\* 0xFFB08113, ADDI x2, x1, -5
WordAddiX2X1 == <<33043, 65456>>

\* 0xFFB08093, ADDI x1, x1, -5
WordAddiX1X1 == <<32915, 65456>>

\* 0x00108013, ADDI x0, x1, 1
WordAddiX0 == <<32787, 16>>

\* 0x00003113, SLTIU x2, x0, 0
WordSltiu == <<12563, 0>>

\* 0x00310133, ADD x2, x2, x3
WordAdd == <<307, 49>>

\* 0x0000007F, an opcode outside the table
WordUnknown == <<127, 0>>

\* 0x0000002F, AMO
WordAmo == <<47, 0>>

WordZero == <<0, 0>>

\* words a memory image holds at address 0, and at address 32
ImageWords0 == {WordAddiX5, WordAddiX2X1, WordAddiX1X1, WordAddiX0, WordSltiu, WordAdd,
                WordUnknown, WordAmo, WordZero}

ImageWords32 == {WordZero, WordAddiX2X1}

\* the memory holding w0 at address 0 and w32 at address 32, zero elsewhere
Image(w0, w32) ==
    [a \in 0..(MemSize - 1) |->
        IF a < 4 THEN ByteOf(w0, a)
        ELSE IF a >= 32 /\ a < 36 THEN ByteOf(w32, a - 32)
        ELSE 0]

\* registers and values handed to Registers64::set
SetRegisters == {PC, ZERO, RA, T0, T6}

SetValues == {U64(5), Max32, Two32}

\* words handed to RV32I::decode directly
ProbeWords == {WordAddiX5, WordUnknown}

Op(op, word, reg, val) == [op |-> op, word |-> word, reg |-> reg, val |-> val]

\* widths in bytes of the four access types
Widths == {1, 2, 4, 8}

\* addresses handed to the memory calls: the start, an unaligned address, the
\* last two bytes and the first address past the end
MemAddresses == {0, 1, MemSize - 2, MemSize - 1, MemSize}

\* 0x1807F6E5D4C3B2A1 and 0x00000000000000FF
MemValues == {<<45729, 54467, 63205, 6151>>, <<255, 0, 0, 0>>}

\* a memory whose bytes are pairwise different over any 8 neighbours
PatternRam == [a \in 0..(MemSize - 1) |-> (a * 7 + 1) % 256]

MemOp(op, width, address, value, result) ==
    [op |-> op, width |-> width, address |-> address, value |-> value, result |-> result]

\* field values handed to the R-type setters
RFields(opcode, rd, funct3, rs1, rs2, funct7) ==
    [opcode |-> opcode, rd |-> rd, funct3 |-> funct3, rs1 |-> rs1, rs2 |-> rs2, funct7 |-> funct7]

FieldInputs ==
    { RFields(o, rd, f3, rs1, rs2, f7) :
        o \in {0, 19, 51, 127}, rd \in {0, 1, 31}, f3 \in {0, 7},
        rs1 \in {0, 2, 31}, rs2 \in {0, 3, 31}, f7 \in {0, 32, 127} }

\* entries, attribute names and enums handed to the enum-alias macro
AliasEntries ==
    { AliasEntry("pair", "Alias1", "Variant1"), AliasEntry("pair", "Alias2", "Variant2"),
      AliasEntry("pair", "Alias3", "Variant3"), AliasEntry("bare", "Alias3", ""),
      AliasEntry("qualified", "m::Alias3", "Variant3") }

AliasLists == UNION { [1..n -> AliasEntries] : n \in 0..MaxAliases }

AttrNames == {"EnumAlias", "enum_alias"}

TestEnum == [name |-> "TestEnum", variants |-> {"Variant1", "Variant2"}]

\* the hart as SimpleRV32IHart::new leaves it
HartIdle ==
    /\ pc = 0
    /\ array = NewRegistersArray(MemSize)
    /\ ram = NewRam
    /\ status = "running"
    /\ fetched = None
    /\ cycle = "new"
    /\ last = Op("new", WordZero, PC, Zero64)
    /\ probe = None

DecoderIdle ==
    /\ dword = WordZero
    /\ dres = [decoded |-> None, arch |-> None, is |-> None, match |-> None, instr |-> None]

\* (no arithmetic outside the multi-byte writes overflows within the bounds,
\* so the other specifications run under one setting of overflowChecks)
MemoryIdle ==
    /\ overflowChecks = TRUE
    /\ mlast = MemOp("new", 1, 0, Zero64, None)
    /\ mwrites = 0

BfState(fields) ==
    [fields |-> fields, word |-> None, rtype |-> None, itype |-> None, btype |-> None, jtype |-> None]

BitfieldIdle == bf = BfState(RFields(0, 0, 0, 0, 0, 0))

AliasIdle ==
    al = [attr |-> "", enum |-> [name |-> "", variants |-> {}], list |-> <<>>,
          derive |-> None, attribute |-> None]

\* no unit bench is in use
UnitIdle == MemoryIdle /\ BitfieldIdle /\ AliasIdle

-----------------------------------------------------------------------------
\* The hart (hart.rs)

\* SimpleRV32IHart::new(MemSize), then the memory image loaded
HartInit ==
    /\ pc = 0
    /\ array = NewRegistersArray(MemSize)
    /\ \E w0 \in ImageWords0, w32 \in ImageWords32 : ram = Image(w0, w32)
    /\ status = "running"
    /\ fetched = None
    /\ cycle = "new"
    /\ last = Op("new", WordZero, PC, Zero64)
    /\ probe = None

\* a fetch that skips a word it cannot decode: it goes on to the next word
\* until one decodes, and returns that one
FetchSkipping ==
    /\ status = "running"
    /\ LET index == pc
           skip == ~ReadWordPanics(index) /\ Decode(ReadWord(index)) = None
                   /\ ~ReadWordPanics(index + InstructionLengthWord)
           at == IF skip THEN index + InstructionLengthWord ELSE index
       IN  IF ReadWordPanics(at)
           THEN /\ status' = "panicked"
                /\ last' = Op("fetch", WordZero, PC, Zero64)
                /\ UNCHANGED <<pc, fetched>>
           ELSE LET data == ReadWord(at) IN
                /\ pc' = at + InstructionLengthWord
                /\ fetched' = Decode(data)
                /\ last' = Op("fetch", ReadWord(index), PC, Zero64)
                /\ UNCHANGED status
    /\ cycle' = IF cycle = "new" THEN "fetched" ELSE "other"
    /\ UNCHANGED <<rOpcodeBits, array, ram, probe, dword, dres, unitVars>>

\* a fetch whose program counter wraps around at the end of memory
FetchWrapping ==
    /\ status = "running"
    /\ LET index == pc IN
       IF ReadWordPanics(index)
       THEN /\ status' = "panicked"
            /\ last' = Op("fetch", WordZero, PC, Zero64)
            /\ UNCHANGED <<pc, fetched>>
       ELSE LET data == ReadWord(index) IN
            /\ pc' = (pc + InstructionLengthWord) % MemSize
            /\ fetched' = Decode(data)
            /\ last' = Op("fetch", data, PC, Zero64)
            /\ UNCHANGED status
    /\ cycle' = IF cycle = "new" THEN "fetched" ELSE "other"
    /\ UNCHANGED <<rOpcodeBits, array, ram, probe, dword, dres, unitVars>>

\* <SimpleRV32IHart as Hart>::fetch
Fetch ==
    /\ status = "running"
    /\ LET index == pc IN
       IF ReadWordPanics(index)
       THEN /\ status' = "panicked"
            /\ last' = Op("fetch", WordZero, PC, Zero64)
            /\ UNCHANGED <<pc, fetched>>
       ELSE LET data == ReadWord(index) IN
            /\ pc' = pc + InstructionLengthWord
            /\ fetched' = Decode(data)
            /\ last' = Op("fetch", data, PC, Zero64)
            /\ UNCHANGED status
    /\ cycle' = IF cycle = "new" THEN "fetched" ELSE "other"
    /\ UNCHANGED <<rOpcodeBits, array, ram, probe, dword, dres, unitVars>>

\* self.registers[rd] = self.registers[rs1].wrapping_add(imm): the registers
\* are reached through the register constants of x<rs1> and x<rd>
ExecuteAddPanics(rd, rs1) == GetPanics(XReg(rs1)) \/ SetPanics(XReg(rd))

ExecuteAdd(arr, rd, rs1, imm) ==
    SetOf(arr, XReg(rd), WrappingAdd(GetOf(pc, arr, XReg(rs1)), ImmToU64(imm)))

\* an execute that advances the program counter itself
ExecuteAdvancing ==
    /\ status = "running"
    /\ fetched # None
    /\ LET formatted == fetched[1]
           rd == ITypeRd(formatted.word)
           rs1 == ITypeRs1(formatted.word)
           imm == ITypeImm(formatted.word)
       IN  /\ IF formatted.format = "IntegerRegisterImmediate" /\ Is(formatted, ADDI)
              THEN IF ExecuteAddPanics(rd, rs1)
                   THEN status' = "panicked" /\ UNCHANGED array
                   ELSE array' = ExecuteAdd(array, rd, rs1, imm) /\ UNCHANGED status
              ELSE UNCHANGED <<array, status>>
           /\ last' = Op("execute", formatted.word, PC, Zero64)
    /\ fetched' = None
    /\ cycle' = IF cycle = "fetched" THEN "done" ELSE "other"
    /\ pc' = pc + 4
    /\ UNCHANGED <<rOpcodeBits, ram, probe, dword, dres, unitVars>>

\* an execute that leaves the number of rd in the last memory byte
ExecuteStoring ==
    /\ status = "running"
    /\ fetched # None
    /\ LET formatted == fetched[1]
           rd == ITypeRd(formatted.word)
           rs1 == ITypeRs1(formatted.word)
           imm == ITypeImm(formatted.word)
       IN  /\ IF formatted.format = "IntegerRegisterImmediate" /\ Is(formatted, ADDI)
              THEN IF ExecuteAddPanics(rd, rs1)
                   THEN status' = "panicked" /\ UNCHANGED array
                   ELSE array' = ExecuteAdd(array, rd, rs1, imm) /\ UNCHANGED status
              ELSE UNCHANGED <<array, status>>
           /\ last' = Op("execute", formatted.word, PC, Zero64)
    /\ fetched' = None
    /\ cycle' = IF cycle = "fetched" THEN "done" ELSE "other"
    /\ ram' = [ram EXCEPT ![MemSize - 1] = ITypeRd(fetched[1].word)]
    /\ UNCHANGED <<rOpcodeBits, pc, probe, dword, dres, unitVars>>

\* <SimpleRV32IHart as Hart>::execute, applied to the instruction the last
\* fetch returned
Execute ==
    /\ status = "running"
    /\ fetched # None
    /\ LET formatted == fetched[1]
           rd == ITypeRd(formatted.word)
           rs1 == ITypeRs1(formatted.word)
           imm == ITypeImm(formatted.word)
       IN  /\ IF formatted.format = "IntegerRegisterImmediate" /\ Is(formatted, ADDI)
              THEN IF ExecuteAddPanics(rd, rs1)
                   THEN status' = "panicked" /\ UNCHANGED array
                   ELSE array' = ExecuteAdd(array, rd, rs1, imm) /\ UNCHANGED status
              ELSE UNCHANGED <<array, status>>
           /\ last' = Op("execute", formatted.word, PC, Zero64)
    /\ fetched' = None
    /\ cycle' = IF cycle = "fetched" THEN "done" ELSE "other"
    /\ UNCHANGED <<rOpcodeBits, pc, ram, probe, dword, dres, unitVars>>

\* Registers64::set
RegSet ==
    /\ status = "running"
    /\ \E rt \in SetRegisters, v \in SetValues :
        /\ IF SetPanics(rt)
           THEN status' = "panicked" /\ UNCHANGED array
           ELSE array' = SetOf(array, rt, v) /\ UNCHANGED status
        /\ last' = Op("set", WordZero, rt, v)
    /\ cycle' = "other"
    /\ UNCHANGED <<rOpcodeBits, pc, ram, fetched, probe, dword, dres, unitVars>>

\* RV32I::decode called on its own
DoDecode ==
    /\ status = "running"
    /\ \E w \in ProbeWords :
        /\ probe' = Some([word |-> w, res |-> Decode(w),
                           again |-> probe # None /\ probe[1].word = w])
        /\ last' = Op("decode", w, PC, Zero64)
    /\ UNCHANGED <<rOpcodeBits, pc, array, ram, status, fetched, cycle, dword, dres, unitVars>>

Init ==
    /\ rOpcodeBits \in {7, 8}
    /\ HartInit
    /\ dword = WordZero
    /\ dres = [decoded |-> None, arch |-> None, is |-> None, match |-> None, instr |-> None]
    /\ UnitIdle

Next ==
    \/ Fetch
    \/ Execute
    \/ RegSet
    \/ DoDecode

Spec == Init /\ [][Next]_vars

\* The hart driven by a loop of fetch and execute; the loop never stops
\* calling fetch while the hart runs
RunNext ==
    \/ Fetch
    \/ Execute

SpecRun == Init /\ [][RunNext]_vars /\ WF_vars(Fetch)

-----------------------------------------------------------------------------
\* Decoder bench: decode and the two descriptor matchers applied to one word

\* bits 31:16 of the words under test
BenchHighHalves == {0, 65456}

\* bits 14:12 of the words under test
BenchFunct3s == {0, 2, 3, 7}

\* the words under test with bits 6:0 = op
BenchWordsOf(op) ==
    { <<op + 128 * b + 4096 * f, h>> : b \in {0, 1}, f \in BenchFunct3s, h \in BenchHighHalves }

BenchWords == UNION { BenchWordsOf(op) : op \in 0..127 }

BenchInit ==
    /\ rOpcodeBits \in {7, 8}
    /\ pc = 0
    /\ array = NewRegistersArray(MemSize)
    /\ ram = Image(WordZero, WordZero)
    /\ status = "running"
    /\ fetched = None
    /\ cycle = "new"
    /\ last = Op("new", WordZero, PC, Zero64)
    /\ probe = None
    /\ dword \in BenchWords
    /\ dres = [decoded |-> None, arch |-> None, is |-> None, match |-> None, instr |-> None]
    /\ UnitIdle

\* RV32I::decode(dword), isa_module.rs
BenchDecode ==
    /\ dres.decoded = None
    /\ dres' = [dres EXCEPT !.decoded = Some(Decode(dword))]
    /\ UNCHANGED <<rOpcodeBits, hartVars, dword, unitVars>>

\* RV32I.decode(dword), architecture.rs
BenchArchDecode ==
    /\ dres.arch = None
    /\ dres' = [dres EXCEPT !.arch = Some(ArchDecode(dword))]
    /\ UNCHANGED <<rOpcodeBits, hartVars, dword, unitVars>>

\* the decoded instruction tried against every declared descriptor with `is`
BenchIs ==
    /\ dres.decoded # None
    /\ dres.decoded[1] # None
    /\ dres.is = None
    /\ dres' = [dres EXCEPT !.is = Some({ d.id : d \in { x \in Descriptors : Is(dres.decoded[1][1], x) } })]
    /\ UNCHANGED <<rOpcodeBits, hartVars, dword, unitVars>>

\* the decoded instruction tried against every declared descriptor with
\* match_instruction
BenchMatch ==
    /\ dres.arch # None
    /\ dres.arch[1] # None
    /\ dres.match = None
    /\ dres' = [dres EXCEPT !.match =
                  Some({ d.id : d \in { x \in Descriptors : MatchInstruction(dres.arch[1][1], x) } })]
    /\ UNCHANGED <<rOpcodeBits, hartVars, dword, unitVars>>

\* the raw word tried against every declared descriptor with match_instr
BenchMatchInstr ==
    /\ dres.instr = None
    /\ dres' = [dres EXCEPT !.instr = Some([d \in Descriptors |-> MatchInstr(dword, d)])]
    /\ UNCHANGED <<rOpcodeBits, hartVars, dword, unitVars>>

BenchNext ==
    \/ BenchDecode
    \/ BenchArchDecode
    \/ BenchIs
    \/ BenchMatch
    \/ BenchMatchInstr

SpecDecode == BenchInit /\ [][BenchNext]_vars

-----------------------------------------------------------------------------
\* Memory bench: the calls of the Memory trait on one VecMemory

MemInit ==
    /\ rOpcodeBits = 7
    /\ pc = 0
    /\ array = NewRegistersArray(MemSize)
    /\ ram \in {NewRam, PatternRam}
    /\ status = "running"
    /\ fetched = None
    /\ cycle = "new"
    /\ last = Op("new", WordZero, PC, Zero64)
    /\ probe = None
    /\ dword = WordZero
    /\ dres = [decoded |-> None, arch |-> None, is |-> None, match |-> None, instr |-> None]
    /\ overflowChecks \in BOOLEAN
    /\ mlast = MemOp("new", 1, 0, Zero64, None)
    /\ mwrites = 0
    /\ BitfieldIdle
    /\ AliasIdle

\* read_byte / read_half_word / read_word / read_double_word
MemRead(width) ==
    /\ status = "running"
    /\ \E address \in MemAddresses :
        IF ReadPanics(width, address)
        THEN /\ status' = "panicked"
             /\ mlast' = MemOp("read", width, address, Zero64, None)
        ELSE /\ mlast' = MemOp("read", width, address, Zero64, Some(ReadOfWidth(width, address)))
             /\ UNCHANGED status
    /\ UNCHANGED <<rOpcodeBits, pc, array, ram, fetched, cycle, last, probe, dword, dres,
                   overflowChecks, mwrites, bf, al>>

\* write_byte / write_half_word / write_word / write_double_word
MemWrite(width) ==
    /\ status = "running"
    /\ mwrites < MaxWrites
    /\ mwrites' = mwrites + 1
    /\ \E address \in MemAddresses, v \in MemValues :
        LET value == ValueOfWidth(v, width)
            done == WriteOfWidth(ram, width, address, value)
        IN  /\ ram' = done.ram
            /\ status' = IF done.ok THEN "running" ELSE "panicked"
            /\ mlast' = MemOp("write", width, address, value, None)
    /\ UNCHANGED <<rOpcodeBits, pc, array, fetched, cycle, last, probe, dword, dres,
                   overflowChecks, bf, al>>

MemNext ==
    \/ \E width \in Widths : MemRead(width)
    \/ \E width \in Widths : MemWrite(width)

SpecMemory == MemInit /\ [][MemNext]_vars

-----------------------------------------------------------------------------
\* Bitfield bench: an R-type word built from field values and read back

BitfieldInit ==
    /\ rOpcodeBits \in {7, 8}
    /\ HartIdle
    /\ DecoderIdle
    /\ MemoryIdle
    /\ AliasIdle
    /\ \E f \in FieldInputs : bf = BfState(f)

\* RType32Bitfield::default().with_opcode(..) ... .with_funct7(..)
BfBuild ==
    /\ bf.word = None
    /\ bf' = [bf EXCEPT !.word = Some(RTypeBuild(bf.fields))]
    /\ UNCHANGED <<rOpcodeBits, hartVars, benchVars, overflowChecks, mlast, mwrites, al>>

\* the getters of RType32Bitfield on the word built
BfReadRType ==
    /\ bf.word # None
    /\ bf.rtype = None
    /\ bf' = [bf EXCEPT !.rtype = Some(RTypeRead(bf.word[1]))]
    /\ UNCHANGED <<rOpcodeBits, hartVars, benchVars, overflowChecks, mlast, mwrites, al>>

\* the getters of IType32Bitfield on the same raw word (the union
\* InstructionFormat32Union gives every layout the same 32 bits)
BfReadIType ==
    /\ bf.word # None
    /\ bf.itype = None
    /\ bf' = [bf EXCEPT !.itype = Some(ITypeRead(bf.word[1]))]
    /\ UNCHANGED <<rOpcodeBits, hartVars, benchVars, overflowChecks, mlast, mwrites, al>>

\* BType32Bitfield::imm_raw on the same raw word
BfReadBType ==
    /\ bf.word # None
    /\ bf.btype = None
    /\ bf' = [bf EXCEPT !.btype = Some([imm_raw |-> BTypeImmRaw(bf.word[1])])]
    /\ UNCHANGED <<rOpcodeBits, hartVars, benchVars, overflowChecks, mlast, mwrites, al>>

\* JType32Bitfield::imm_raw on the same raw word
BfReadJType ==
    /\ bf.word # None
    /\ bf.jtype = None
    /\ \E width \in {12, 20} :
        bf' = [bf EXCEPT !.jtype = Some([imm_raw |-> JTypeImmRaw(bf.word[1], width)])]
    /\ UNCHANGED <<rOpcodeBits, hartVars, benchVars, overflowChecks, mlast, mwrites, al>>

BitfieldNext ==
    \/ BfBuild
    \/ BfReadRType
    \/ BfReadIType
    \/ BfReadBType
    \/ BfReadJType

SpecBitfield == BitfieldInit /\ [][BitfieldNext]_vars

-----------------------------------------------------------------------------
\* Enum-alias bench: the two macro implementations on one input

AliasInit ==
    /\ rOpcodeBits = 7
    /\ HartIdle
    /\ DecoderIdle
    /\ MemoryIdle
    /\ BitfieldIdle
    /\ \E attr \in AttrNames, list \in AliasLists :
        al = [attr |-> attr, enum |-> TestEnum, list |-> list, derive |-> None, attribute |-> None]

\* derive_enum_alias_impl(input)
AliasDerive ==
    /\ al.derive = None
    /\ al' = [al EXCEPT !.derive = Some(DeriveEnumAliasImpl(al.attr, al.enum, al.list))]
    /\ UNCHANGED <<rOpcodeBits, hartVars, benchVars, overflowChecks, mlast, mwrites, bf>>

\* enum_alias_impl(metadata, input)
AliasAttribute ==
    /\ al.attribute = None
    /\ al' = [al EXCEPT !.attribute = Some(EnumAliasImpl(al.attr, al.enum, al.list))]
    /\ UNCHANGED <<rOpcodeBits, hartVars, benchVars, overflowChecks, mlast, mwrites, bf>>

AliasNext ==
    \/ AliasDerive
    \/ AliasAttribute

SpecAlias == AliasInit /\ [][AliasNext]_vars

-----------------------------------------------------------------------------
\* Vocabulary of the properties

\* a 12-bit immediate sign-extended to 64 bits
SignExtend12(imm) ==
    IF imm >= 2048 THEN <<61440 + imm, 65535, 65535, 65535>> ELSE U64(imm)

\* a u64 reduced modulo 2^32
Mod32(v) == <<v[1], v[2], 0, 0>>

\* the first fetch/decode/identify/execute cycle of the hart is over: the
\* fetched instruction was executed, or the fetch returned no instruction
FirstCycleOver == cycle = "done" \/ (cycle = "fetched" /\ status = "running" /\ fetched = None)

\* the last fetch returned an instruction with the encoding of ADDI
FetchedAddi ==
    /\ fetched # None
    /\ fetched[1].format = "IntegerRegisterImmediate"
    /\ ITypeOpcode(fetched[1].word) = OpImmediate
    /\ ITypeFunct3(fetched[1].word) = Funct3ADD

\* "no instruction", or the variant of a decoded instruction
VariantOf(decoded) == IF decoded = None THEN "none" ELSE decoded[1].format

\* the variant the opcode-to-variant table gives for an opcode value
TableVariant(op) ==
    IF op = 19 THEN "IntegerRegisterImmediate"
    ELSE IF op = 51 THEN "IntegerRegisterRegister"
    ELSE IF op = 111 THEN "UnconditionalJump"
    ELSE IF op = 99 THEN "ConditionBranch"
    ELSE IF op = 55 \/ op = 23 THEN "Load"
    ELSE IF op = 35 THEN "Store"
    ELSE "none"

\* variants of InstructionFormat32 the decoder has no arm for
NeverProduced ==
    {"Fence", "ControlAndStatusRegister", "TimeAndCounter", "EnvironmentCallAndBreakpoint"}

\* opcodes of the table that belong to families left out of RV32I
ExcludedOpcodes ==
    { AtomicMemoryOperation, OpcodeLoadFloatingPoint, OpcodeStoreFloatingPoint,
      MultiplyAndAdd, MultiplyAndSubtract, NegMultiplyAndSubtract, NegMultiplyAndAdd,
      OpFloatingPoint, OpVector, OpVectorElement }

\* the funct7-presence rule of descriptor matching
Funct7PresenceRule(inst, descr) ==
    LET w == inst.word IN
    IF inst.format \in RTypeFormats
    THEN /\ descr.opcode = Some(Bits(w, 0, 6))
         /\ descr.funct3 = Some(Bits(w, 12, 14))
         /\ descr.funct7 = Some(Bits(w, 25, 31))
    ELSE /\ descr.opcode = Some(Bits(w, 0, 6))
         /\ descr.funct3 = Some(Bits(w, 12, 14))
         /\ descr.funct7 = None

FormatsOfRule == {"IntegerRegisterImmediate", "Load", "ControlAndStatusRegister", "TimeAndCounter",
                  "IntegerRegisterRegister", "EnvironmentCallAndBreakpoint", "Store",
                  "ConditionBranch", "Fence"}

DescriptorTuple(d) == <<d.format, d.opcode, d.funct3, d.funct7>>

\* the alias list has n >= 1 entries, each of the form "Alias = Variant"
WellFormedAliasList(list) == Len(list) >= 1 /\ \A i \in 1..Len(list) : list[i].kind = "pair"

\* the impl block for the enum's own name holding one constant per entry of
\* the list, in list order
ImplBlockOf(enum, list) ==
    [name |-> [token |-> "ident", text |-> enum.name],
     consts |-> [i \in 1..Len(list) |-> <<list[i].alias, list[i].variant>>]]

\* the B-type immediate {31}{7}{30:25}{11:8}0 of a word, sign-extended from
\* 13 bits
BImmediate(w) ==
    LET u == 2 * Bits(w, 8, 11) + 32 * Bits(w, 25, 30) + 2048 * Bit(w, 7) + 4096 * Bit(w, 31)
    IN  IF u >= 4096 THEN u - 8192 ELSE u

\* the J-type immediate {31}{19:12}{20}{30:21}0 of a word, sign-extended from
\* 21 bits
JImmediate(w) ==
    LET u == 2 * Bits(w, 21, 30) + 2048 * Bit(w, 20) + 4096 * Bits(w, 12, 19)
             + 1048576 * Bit(w, 31)
    IN  IF u >= 1048576 THEN u - 2097152 ELSE u

\* the two's-complement value of a 12-bit field
Signed12(raw) == IF raw >= 2048 THEN raw - 4096 ELSE raw

\* reading the register through Registers64::get succeeds and yields v
Reads(reg, v) == ~GetPanics(reg) /\ Get(reg) = v

\* at least one byte of the access of `width` bytes at `address` lies at or
\* past the memory size
AccessOutOfBounds(width, address) == \E i \in 0..(width - 1) : address + i >= MemSize

\* v is the little-endian composition of the `width` bytes of r from `address`
LittleEndianOf(v, r, width, address) ==
    /\ \A k \in 1..4 : v[k] \in 0..(HalfWordRadix - 1)
    /\ \A k \in 0..7 : ByteOfValue(v, k) = IF k < width THEN r[address + k] ELSE 0

\* the word's opcode (bits 6:0) is outside the opcode table or belongs to a
\* family left out of RV32I
UnsupportedOpcode(w) == Bits(w, 0, 6) \notin Opcode7Table \/ Bits(w, 0, 6) \in ExcludedOpcodes

-----------------------------------------------------------------------------
\* Properties

\* C1: with ADDI x5, x0, 5 (0x00500293) at address 0 and PC = 0, after one
\* fetch/decode/identify/execute cycle of a fresh hart register x5 reads 5
\* and PC reads 4.
C1_EndToEndAddi ==
    (FirstCycleOver /\ ReadWord(0) = WordAddiX5) => (Get(T0) = U64(5) /\ pc = 4)

\* C2: every successful fetch advances PC by exactly 4 bytes, whatever the
\* fetched word decodes to.
C2_FetchAdvancesPcBy4 ==
    [][(Fetch /\ status' = "running") => pc' = pc + 4]_vars

\* C3: register 0 always reads 0, and a write to register 0 is a no-op that
\* raises no error and changes no register.
C3_ZeroRegister ==
    [][/\ GetOf(pc', array', ZERO) = Zero64
       /\ (RegSet /\ last'.reg = ZERO) => (status' = "running" /\ array' = array)]_vars

\* C4: executing ADDI sets registers[rd] to registers[rs1] plus the 12-bit
\* immediate sign-extended to register width (rs1 = 5, imm = -5 gives 0).
C4_AddiSignExtends ==
    [][(Execute /\ FetchedAddi /\ ITypeRd(fetched[1].word) # 0)
         => GetOf(pc', array', XReg(ITypeRd(fetched[1].word)))
              = WrappingAdd(Get(XReg(ITypeRs1(fetched[1].word))),
                            SignExtend12(ITypeImm(fetched[1].word)))]_vars

\* C5: register arithmetic wraps modulo 2^32 (XLEN = 32), so every general
\* register always holds a value in 0..2^32-1.
C5_RegistersWithin32Bits ==
    \A i \in 0..(REGISTERS_COUNT - 1) : array[i] = Mod32(array[i])

C7_UnknownOpcodeNoInstruction ==
    LET op == Bits(dword, 0, 6) IN
    (op \notin Opcode7Table \/ op \in ExcludedOpcodes)
        => /\ dres.decoded \in {None, Some(None)}
           /\ dres.arch \in {None, Some(None)}

\* C7 witness: the word 0x0000007F was decoded, to "no instruction".
C7_Witness ==
    /\ dword = WordUnknown
    /\ dres.decoded = Some(None)
    /\ dres.arch = Some(None)

\* C8: the variant is chosen by bits 6:0 alone: every word that agrees with
\* the decoded word on bits 6:0 decodes to the same variant, or both decode to
\* no instruction.
C8_VariantByOpcodeOnly ==
    dres.decoded # None =>
        \A w \in BenchWordsOf(Bits(dword, 0, 6)) :
            /\ VariantOf(Decode(w)) = VariantOf(dres.decoded[1])
            /\ VariantOf(ArchDecode(w)) = VariantOf(dres.decoded[1])

\* C9: descriptor matching follows the funct7-presence rule: formats with a
\* funct7 field match when opcode, funct3 and funct7 agree, formats without
\* one when opcode and funct3 agree and the descriptor declares no funct7; so
\* every OpImmediate word with funct3 = 0 matches ADDI.
C9_Funct7PresenceRule ==
    (dres.is # None /\ dres.decoded[1][1].format \in FormatsOfRule) =>
        \A d \in Descriptors :
            (d.id \in dres.is[1]) <=> Funct7PresenceRule(dres.decoded[1][1], d)

\* C10: no two declared descriptors share the same (format, opcode, funct3,
\* funct7) tuple, so at most one declared descriptor matches a decoded
\* instruction.
C10_DescriptorsDisjoint ==
    (dres.is # None \/ dres.match # None) =>
        /\ \A d1, d2 \in Descriptors : d1.id # d2.id => DescriptorTuple(d1) # DescriptorTuple(d2)
        /\ dres.is # None => Cardinality(dres.is[1]) <= 1
        /\ dres.match # None => Cardinality(dres.match[1]) <= 1

\* C11: execute never silently does nothing: for every decoded instruction
\* without execute logic (every variant other than IntegerRegisterImmediate,
\* and every IntegerRegisterImmediate instruction that is not ADDI) execute
\* reports an explicit condition instead of returning normally with registers,
\* memory and PC unchanged.
C11_ExecuteReportsUnimplemented ==
    [][(Execute /\ ~FetchedAddi) => status' # "running"]_vars

\* C12: a decode failure is surfaced and never skipped: when the word at PC
\* has an unknown or unsupported opcode, fetch returns "no instruction", no
\* instruction is executed for that cycle, and no general register and no
\* memory byte changes.
C12_DecodeFailureSurfaced ==
    [][/\ (Fetch /\ status' = "running" /\ UnsupportedOpcode(last'.word))
            => (fetched' = None /\ array' = array /\ ram' = ram)
       /\ (last.op = "fetch" /\ UnsupportedOpcode(last.word)) => ~Execute]_vars

\* C12 witness: the word 0x0000007F at address 0 was fetched and "no
\* instruction" came back, with the registers as constructed.
C12_Witness ==
    /\ last.op = "fetch"
    /\ last.word = WordUnknown
    /\ status = "running"
    /\ fetched = None
    /\ pc = InstructionLengthWord
    /\ array = NewRegistersArray(MemSize)

\* C13: an out-of-bounds access is fatal with no wraparound: a read or write
\* of any width with at least one accessed byte address >= the memory size ends
\* in a fatal error, returns no value and stores no byte at any in-range
\* address.
C13_OutOfBoundsFatal ==
    [][(MemNext /\ AccessOutOfBounds(mlast'.width, mlast'.address))
         => (status' = "panicked" /\ mlast'.result = None /\ ram' = ram)]_vars

\* C14: multi-byte reads are little-endian compositions of byte reads at any
\* in-range address, aligned or not: read_half_word(a) = m[a] + 2^8*m[a+1],
\* read_word(a) and read_double_word(a) likewise over 4 and 8 bytes; a read
\* changes no memory byte.
C14_ReadsLittleEndian ==
    [][\A width \in Widths :
          (MemRead(width) /\ ~AccessOutOfBounds(width, mlast'.address))
            => /\ status' = "running"
               /\ ram' = ram
               /\ mlast'.result # None
               /\ LittleEndianOf(mlast'.result[1], ram, width, mlast'.address)]_vars

\* C14 witness: read_double_word(1) returned on the memory whose bytes all
\* differ.
C14_Witness ==
    /\ mlast.op = "read"
    /\ mlast.width = 8
    /\ mlast.address = 1
    /\ mlast.result # None
    /\ ram = PatternRam

\* C15: write/read round trip per width: for every value v and address a with
\* the whole access in range, write_byte/half_word/word/double_word(a, v)
\* completes without error, the bytes from a hold v least significant first,
\* and the read of the same width at a then returns v.
C15_WriteReadRoundTrip ==
    [][\A width \in Widths :
          /\ (MemWrite(width) /\ ~AccessOutOfBounds(width, mlast'.address))
                => /\ status' = "running"
                   /\ LittleEndianOf(mlast'.value, ram', width, mlast'.address)
          /\ (MemRead(width) /\ mlast.op = "write" /\ mlast.width = width
                /\ mlast'.address = mlast.address /\ status' = "running")
                => mlast'.result = Some(mlast.value)]_vars

\* C16: construction of a hart with N > 0 bytes of memory yields PC = 0, the
\* stack pointer register (x2 / sp) reading N - 1 and every other general
\* register reading 0.
C16_Construction ==
    last.op = "new" =>
        /\ pc = 0
        /\ Reads(SP, U64(MemSize - 1))
        /\ \A i \in 0..31 : XReg(i) # SP => Reads(XReg(i), Zero64)

\* C17: register writes are full-width overwrites for every index 1..31:
\* write(i, v) followed by read(i) returns v, no other general register and
\* not the PC changes, and no index in 0..31 causes a fault.
C17_RegisterWrites ==
    [][(RegSet /\ last'.reg # PC)
         => /\ status' = "running"
            /\ pc' = pc
            /\ last'.reg # ZERO
                 => /\ ~GetPanics(last'.reg)
                    /\ GetOf(pc', array', last'.reg) = last'.val
            /\ \A i \in 0..(REGISTERS_COUNT - 1) : i # last'.reg.pos => array'[i] = array[i]]_vars

\* C18: R-type field round trip: for all field values within their declared
\* widths (opcode 7 bits, rd 5, funct3 3, rs1 5, rs2 5, funct7 7), building an
\* R-type word from the fields and reading each field back yields the
\* original values.
C18_RTypeRoundTrip ==
    bf.rtype # None => bf.rtype[1] = bf.fields

\* C19: the I-type immediate is bits 31:20 read as a 12-bit signed value: a
\* word whose bits 31:20 are 0xFFF yields -1, and in general the immediate is
\* the two's-complement value of those 12 bits.
C19_ITypeImmediateSigned ==
    bf.itype # None => bf.itype[1].imm = Signed12(Bits(bf.word[1], 20, 31))

\* C20: enum-alias generation: for an alias list of n >= 1 entries
\* "Alias = Variant" the macro implementation returns an impl block for the
\* annotated enum's own name holding exactly n constants
\* "pub const Alias: Self = Self::Variant", in list order, whether or not
\* each Variant exists in the enum.
C20_EnumAliasGeneration ==
    (al.attr = "EnumAlias" /\ WellFormedAliasList(al.list)) =>
        /\ al.derive # None
             => (al.derive[1].ok /\ al.derive[1].value = ImplBlockOf(al.enum, al.list))
        /\ al.attribute # None
             => (al.attribute[1].ok /\ al.attribute[1].value = ImplBlockOf(al.enum, al.list))

\* C21: enum-alias rejection: the macro implementation returns an error and
\* no generated code when the alias list is empty or when any entry is not of
\* the form "Alias = Variant", even if other entries are well formed.
C21_EnumAliasRejection ==
    (al.list = <<>> \/ \E i \in 1..Len(al.list) : al.list[i].kind # "pair") =>
        /\ al.derive # None => (~al.derive[1].ok /\ al.derive[1].value = <<>>)
        /\ al.attribute # None => (~al.attribute[1].ok /\ al.attribute[1].value = <<>>)

\* C22: the opcode field occupies bits 6:0 in every encoding shape: for every
\* word w the opcode read under each layout (R, I, Fence, S, B, U, J) equals
\* w mod 128, so the decoder's read through the R layout equals the opcode of
\* the layout finally chosen and never depends on bit 7.
C22_OpcodeBits6to0 ==
    dres.decoded # None =>
        /\ \A op \in { RTypeOpcode(dword), ITypeOpcode(dword), IFenceTypeOpcode(dword),
                        STypeOpcode(dword), BTypeOpcode(dword), UTypeOpcode(dword),
                        JTypeOpcode(dword) } : op = dword[1] % 128
        /\ dres.decoded[1] # None => GetOpcode(dres.decoded[1][1]) = RTypeOpcode(dword)

\* C23: the B-type immediate of a word is the 13-bit sign-extended value
\* {bit 31}{bit 7}{bits 30:25}{bits 11:8}0, always even and within
\* -4096..4094.
C23_BTypeImmediate ==
    bf.btype # None =>
        /\ bf.btype[1].imm_raw = BImmediate(bf.word[1])
        /\ bf.btype[1].imm_raw % 2 = 0
        /\ bf.btype[1].imm_raw \in -4096..4094

\* C24: the J-type immediate of a word is the 21-bit sign-extended value
\* {bit 31}{bits 19:12}{bit 20}{bits 30:21}0; all 20 immediate bits of the
\* word are preserved.
C24_JTypeImmediate ==
    bf.jtype # None => bf.jtype[1].imm_raw = JImmediate(bf.word[1])

\* C29: match_instr treats a descriptor's absent funct7 (and absent opcode
\* or funct3) as the value 0 when comparing against the word read under the
\* R layout: a word matches ADDI through match_instr exactly when its opcode
\* is OpImmediate, its funct3 is 0 and its bits 31:25 are all zero, and a
\* successful match returns the word wrapped in the variant named by the
\* descriptor's format.
C29_MatchInstrDefaults ==
    dres.instr # None =>
        /\ dres.instr[1][ADDI] # None
             <=> /\ RTypeOpcode(dword) = OpImmediate
                 /\ Bits(dword, 12, 14) = 0
                 /\ Bits(dword, 25, 31) = 0
        /\ \A d \in Descriptors :
             dres.instr[1][d] # None => dres.instr[1][d] = Some(Instr(d.format, dword))

\* C29 witness: 0x00000013 went through match_instr and matched ADDI, whose
\* funct7 is absent.
C29_Witness ==
    /\ dword = <<19, 0>>
    /\ ADDI.funct7 = None
    /\ dres.instr # None
    /\ dres.instr[1][ADDI] = Some(Instr("IntegerRegisterImmediate", dword))

\* C25: execute of an instruction that is not a branch or jump leaves PC
\* unchanged: PC after execute equals PC before execute, for ADDI and every
\* other instruction, and PC changes only by the advance in fetch.
C25_ExecuteKeepsPc ==
    [][(Execute => pc' = pc) /\ (pc' # pc => Fetch)]_vars

\* C25 witness: ADDI x5, x0, 5 was fetched from address 0 and executed, and
\* PC is where the fetch left it.
C25_Witness ==
    /\ cycle = "done"
    /\ status = "running"
    /\ last.op = "execute"
    /\ last.word = WordAddiX5
    /\ pc = InstructionLengthWord

\* C26: memory is changed only by Store execution: fetch, decode, descriptor
\* matching and execute of every non-store instruction leave every memory
\* byte unchanged, and ADDI changes no general register other than rd.
C26_MemoryAndRegisterFrame ==
    [][ /\ ram' # ram => (Execute /\ fetched[1].format = "Store")
        /\ (Fetch \/ DoDecode) => (ram' = ram /\ array' = array)
        /\ (Execute /\ FetchedAddi) =>
              \A i \in DOMAIN array :
                  i # XReg(ITypeRd(fetched[1].word)).pos => array'[i] = array[i] ]_vars

\* C26 witness: ADDI x2, x1, -5 was fetched from address 0 and executed; the
\* memory image is the one loaded.
C26_Witness ==
    /\ cycle = "done"
    /\ status = "running"
    /\ last.op = "execute"
    /\ last.word = WordAddiX2X1
    /\ \E w32 \in ImageWords32 : ram = Image(WordAddiX2X1, w32)

C27_WriteFrame ==
    [][\A width \in Widths \ {1} :
          MemWrite(width) =>
              \A a \in DOMAIN ram :
                  (a < mlast'.address \/ a >= mlast'.address + width) => ram'[a] = ram[a]]_vars

\* C28: the decoder's opcode-to-variant table is 0x13 ->
\* IntegerRegisterImmediate, 0x33 -> IntegerRegisterRegister, 0x6F ->
\* UnconditionalJump, 0x63 -> ConditionBranch, 0x37 and 0x17 -> Load, 0x23 ->
\* Store; every other opcode (0x03, 0x67, 0x0F and 0x73 included) decodes to
\* no instruction, so Fence, ControlAndStatusRegister, TimeAndCounter and
\* EnvironmentCallAndBreakpoint are never produced.  The opcode is the one
\* the decoder reads from the word; a decoded instruction wraps that word.
C28_DecodeTable ==
    \A res \in {dres.decoded, dres.arch} :
        res # None =>
            /\ VariantOf(res[1]) = TableVariant(RTypeOpcode(dword))
            /\ VariantOf(res[1]) \notin NeverProduced
            /\ RTypeOpcode(dword) \in {3, 103, 15, 115} => res[1] = None
            /\ res[1] # None => res[1][1].word = dword

\* C28 witness: a word with the Load opcode 0x03 went through both decoders
\* and neither produced an instruction.
C28_Witness ==
    /\ dword = <<3, 0>>
    /\ dres.decoded = Some(None)
    /\ dres.arch = Some(None)

====
